---- MODULE Spec2Model ----
(***************************************************************************)
(* Verification model of the tutorial notebooks                            *)
(*   src/tutorials/simplicial/scone_train_bis.ipynb   (SCoNe)              *)
(*   src/tutorials/simplicial/scn2_train.ipynb        (SCN2, SCA, CAN,     *)
(*                                                     HMPNN, concatenated)*)
(*                                                                         *)
(* Spec         : one run of a notebook, cell by cell and, inside the      *)
(*                training cell, statement by statement.                    *)
(* FairSpec     : Spec with the kernel never idling (for termination).     *)
(* SpecForward  : construction of a model object and one forward call.     *)
(* SpecShape    : forward calls of the notebooks' models on complexes of    *)
(*                every size.                                               *)
(* SpecPool     : forward calls of the three pooling models (SCN2,          *)
(*                AMPSSCA, CAN) as the notebooks instantiate them.          *)
(* SpecFrame    : one forward call, statement by statement, on a heap of    *)
(*                tensor objects.                                           *)
(* SpecLoss     : the training losses recorded in the notebooks' output.    *)
(* SpecData     : the label construction and train/test split of SCoNe.    *)
(* SpecIncidence: the construction of incidence_1 in the HMPNN notebook.   *)
(***************************************************************************)
EXTENDS Integers, Sequences, FiniteSets, TLC

VARIABLES
    nb,          \* which notebook is being run
    device,      \* torch.device selected by the second cell ("none" before)
    cell,        \* index of the next cell of Program(nb)
    pc,          \* position inside the running cell
    k,           \* index of the next statement of the iteration body
    s,           \* index of the current sample of the inner zip loop
    epoch,       \* the Python loop variable epoch / epoch_i
    started,     \* how many values of the epoch range have been consumed
    iter,        \* number of training iterations begun (identifies one)
    grad,        \* per parameter group: iterations whose backward is in .grad
    lastStep,    \* what the last optimizer step consumed
    updates,     \* number of optimizer steps applied to the parameters
    where,       \* device every tensor / parameter group lives on
    epoch_loss,  \* the Python list epoch_loss
    printed,     \* epoch numbers printed by the running training cell
    tests,       \* epochs whose test evaluation has been printed
    iterLog,     \* history: the five training steps executed in this iteration
    failedAt,    \* the statement that raised, "none" when nothing raised
    phase,       \* history: the phase the last executed statement belongs to
    completed,   \* history: phases that have run to completion
    fw,          \* state of SpecForward
    sc,          \* state of SpecData
    hm,          \* state of SpecIncidence
    rec          \* state of SpecLoss

env   == <<nb, device>>
ctl   == <<cell, pc, k, s>>
loopv == <<epoch, started, iter>>
gradv == <<grad, lastStep, updates>>
outv  == <<epoch_loss, printed, tests>>
hist  == <<phase, completed>>
aux   == <<fw, sc, hm, rec>>
vars  == <<nb, device, cell, pc, k, s, epoch, started, iter, grad, lastStep,
           updates, where, epoch_loss, printed, tests, iterLog, failedAt,
           phase, completed, fw, sc, hm, rec>>

Notebooks == {"SCoNe", "SCN2", "SCA", "CAN", "HMPNN"}
Groups    == {"readout", "layers"}
Tensors   == {"x", "nbhd", "iden", "y", "readout", "layers"}

(* Number of complexes of the shrec_16 data set (100 in the data set). *)
NumComplexes == 5

(* train_test_split(test_size=0.2, shuffle=False): ceil(0.2 n) test samples. *)
NumTestOf(n)  == (n + 4) \div 5
NumTrainOf(n) == n - NumTestOf(n)

(* The notebooks whose training loop zips over the complexes one by one. *)
PerSample(n) == n \in {"SCN2", "SCA", "CAN"}

NumTrainSamples(n) == IF PerSample(n) THEN NumTrainOf(NumComplexes) ELSE 1
NumTestSamples(n)  == IF PerSample(n) THEN NumTestOf(NumComplexes) ELSE 1

(* The cells of each notebook, in file order. *)
Program(n) ==
    CASE n = "SCoNe" -> <<"device", "load", "build", "labels", "split", "model", "train">>
      [] n = "SCN2"  -> <<"device", "load", "build", "model", "split", "train">>
      [] n = "SCA"   -> <<"device", "load", "build", "split", "model", "train">>
      [] n = "CAN"   -> <<"device", "load", "build", "model", "split", "train", "model", "train">>
      [] n = "HMPNN" -> <<"device", "load", "build", "model", "train", "test">>

(* num_epochs of each training cell. *)
NumEpochs(n) ==
    CASE n = "SCoNe" -> 6
      [] n = "SCN2"  -> 8
      [] n = "SCA"   -> 6
      [] n = "CAN"   -> 10
      [] n = "HMPNN" -> 100

(* test_interval of each training cell (HMPNN validates in every epoch). *)
TestInterval(n) ==
    CASE n = "SCoNe" -> 2
      [] n = "SCN2"  -> 2
      [] n = "SCA"   -> 1
      [] n = "CAN"   -> 2
      [] n = "HMPNN" -> 1

(* range(1, num_epochs + 1), and range(100) in HMPNN: the j-th value. *)
EpochRange(n, j) == IF n = "HMPNN" THEN j - 1 ELSE j

EpochLabelRaw(n, e) == e

(* The epoch number the print statement shows. *)
EpochLabel(n, e) == IF n = "HMPNN" THEN e + 1 ELSE e

TestDueOdd(n, e) == n # "HMPNN" /\ e % TestInterval(n) = 1

(* if epoch % test_interval == 0 *)
TestDue(n, e) == n # "HMPNN" /\ e % TestInterval(n) = 0

(* The statements of one training iteration, in source order. *)
IterOrder(n) ==
    CASE n = "SCoNe" -> <<"zero_grad", "forward", "loss", "append", "backward", "step">>
      [] n = "HMPNN" -> <<"zero_grad", "forward", "loss", "backward", "step">>
      [] OTHER       -> <<"zero_grad", "forward", "loss", "backward", "step", "append">>

(* model.parameters(): the parameter groups registered as sub-modules.  A   *)
(* plain Python list of layers (SCoNeNN, CAN) registers nothing.            *)
Registered(n) == IF n \in {"SCoNe", "CAN"} THEN {"readout"} ELSE Groups

(* model.to(device): SCoNe never calls it; it moves registered groups.      *)
MovedByTo(n) == IF n = "SCoNe" THEN {} ELSE Registered(n)

(* Tensors and parameters one forward call touches. *)
ForwardTensors(n) ==
    {"x", "nbhd", "readout", "layers"} \cup (IF n = "SCoNe" THEN {"iden"} ELSE {})

Mismatch == Cardinality({where[t] : t \in ForwardTensors(nb)}) > 1

Cur == IF cell <= Len(Program(nb)) THEN Program(nb)[cell] ELSE "end"

AfterCell == IF cell + 1 > Len(Program(nb)) THEN "done" ELSE "setup"

AfterIter(n) ==
    IF PerSample(n) THEN "sample" ELSE IF n = "HMPNN" THEN "validate" ELSE "print"

AtStep(name) == pc = "iter" /\ k <= Len(IterOrder(nb)) /\ IterOrder(nb)[k] = name

(* Control after the k-th statement of the iteration body. *)
StepDone ==
    /\ pc' = IF k < Len(IterOrder(nb)) THEN "iter" ELSE AfterIter(nb)
    /\ k' = IF k < Len(IterOrder(nb)) THEN k + 1 ELSE 1
    /\ UNCHANGED <<cell, s>>

RaiseCaught(stmt) ==
    /\ failedAt' = stmt
    /\ UNCHANGED <<nb, device, cell, pc, k, s, epoch, started, iter, grad, lastStep,
                   updates, where, epoch_loss, printed, tests, iterLog, phase,
                   completed, fw, sc, hm, rec>>

(* An exception nobody catches: the run stops where it is. *)
Raise(stmt) ==
    /\ pc' = "failed"
    /\ failedAt' = stmt
    /\ UNCHANGED <<nb, device, cell, k, s, epoch, started, iter, grad, lastStep,
                   updates, where, epoch_loss, printed, tests, iterLog, phase,
                   completed, fw, sc, hm, rec>>

Off == [pc |-> "off"]

Init ==
    /\ nb \in Notebooks
    /\ device = "none"
    /\ cell = 1
    /\ pc = "setup"
    /\ k = 1
    /\ s = 0
    /\ epoch = 0
    /\ started = 0
    /\ iter = 0
    /\ grad = [g \in Groups |-> {}]
    /\ lastStep = [iter |-> 0, used |-> {}]
    /\ updates = 0
    /\ where = [t \in Tensors |-> "none"]
    /\ epoch_loss = <<>>
    /\ printed = <<>>
    /\ tests = <<>>
    /\ iterLog = <<>>
    /\ failedAt = "none"
    /\ phase = "none"
    /\ completed = {}
    /\ fw = Off
    /\ sc = Off
    /\ hm = Off
    /\ rec = Off

(* device = torch.device("cuda" if torch.cuda.is_available() else "cpu") *)
SelectDevice ==
    /\ pc = "setup" /\ Cur = "device"
    /\ \E d \in {"cuda", "cpu"} : device' = d
    /\ cell' = cell + 1
    /\ UNCHANGED <<nb, pc, k, s, loopv, gradv, where, outv, iterLog, failedAt, hist, aux>>

(* The data set is loaded into host memory. *)
LoadData ==
    /\ pc = "setup" /\ Cur = "load"
    /\ where' = [where EXCEPT !["x"] = "cpu", !["y"] = "cpu"]
    /\ phase' = "load"
    /\ completed' = completed \cup {"load"}
    /\ cell' = cell + 1
    /\ UNCHANGED <<env, pc, k, s, loopv, gradv, outv, iterLog, failedAt, aux>>

(* Laplacians / incidence matrices; HMPNN then calls dataset.to(device). *)
BuildNeighborhoods ==
    /\ pc = "setup" /\ Cur = "build"
    /\ where' = IF nb = "HMPNN"
                THEN [where EXCEPT !["x"] = device, !["y"] = device, !["nbhd"] = device]
                ELSE [where EXCEPT !["nbhd"] = "cpu"]
    /\ phase' = "build"
    /\ completed' = completed \cup {"build"}
    /\ cell' = cell + 1
    /\ UNCHANGED <<env, pc, k, s, loopv, gradv, outv, iterLog, failedAt, aux>>

(* SCoNe: x_1 = torch.tensor(x_1).to(device); y = torch.tensor(y).to(device) *)
PrepareInputs ==
    /\ pc = "setup" /\ Cur = "labels"
    /\ where' = [where EXCEPT !["x"] = device, !["y"] = device]
    /\ phase' = "prepare"
    /\ cell' = cell + 1
    /\ UNCHANGED <<env, pc, k, s, loopv, gradv, outv, iterLog, failedAt, completed, aux>>

(* The train_test_split cell. *)
Split ==
    /\ pc = "setup" /\ Cur = "split"
    /\ phase' = "prepare"
    /\ cell' = cell + 1
    /\ UNCHANGED <<env, pc, k, s, loopv, gradv, where, outv, iterLog, failedAt, completed, aux>>

(* model = Model(...); [model = model.to(device)]; optimizer = Adam(model.parameters()) *)
Instantiate ==
    /\ pc = "setup" /\ Cur = "model"
    /\ where' = [t \in Tensors |->
                    IF t \in Groups
                    THEN (IF t \in MovedByTo(nb) THEN device ELSE "cpu")
                    ELSE where[t]]
    /\ grad' = [g \in Groups |-> {}]
    /\ lastStep' = [iter |-> 0, used |-> {}]
    /\ updates' = 0
    /\ phase' = "instantiate"
    /\ completed' = (completed \ {"train", "evaluate"}) \cup {"instantiate"}
    /\ cell' = cell + 1
    /\ UNCHANGED <<env, pc, k, s, loopv, outv, iterLog, failedAt, aux>>

(* The statements of the training cell before its for loop. *)
TrainBegin ==
    /\ pc = "setup" /\ Cur = "train"
    /\ where' = IF nb = "SCoNe" THEN [where EXCEPT !["iden"] = "cpu"] ELSE where
    /\ pc' = "epoch"
    /\ started' = 0
    /\ printed' = <<>>
    /\ tests' = <<>>
    /\ phase' = "train"
    /\ UNCHANGED <<env, cell, k, s, epoch, iter, gradv, epoch_loss, iterLog, failedAt,
                   completed, aux>>

(* for epoch in range(...): epoch_loss = []; model.train() *)
EpochBegin ==
    /\ pc = "epoch" /\ started < NumEpochs(nb)
    /\ started' = started + 1
    /\ epoch' = EpochRange(nb, started + 1)
    /\ epoch_loss' = <<>>
    /\ phase' = "train"
    /\ s' = 0
    /\ k' = 1
    /\ IF PerSample(nb)
       THEN pc' = "sample" /\ UNCHANGED <<iter, iterLog>>
       ELSE pc' = "iter" /\ iter' = iter + 1 /\ iterLog' = <<>>
    /\ UNCHANGED <<env, cell, gradv, where, printed, tests, failedAt, completed, aux>>

(* The epoch range is exhausted: the for loop, and with it the cell, ends. *)
LoopExit ==
    /\ pc = "epoch" /\ started >= NumEpochs(nb)
    /\ completed' = completed \cup {"train"}
    /\ cell' = cell + 1
    /\ pc' = AfterCell
    /\ UNCHANGED <<env, k, s, loopv, gradv, where, outv, iterLog, failedAt, phase, aux>>

(* for x_0, ..., y in zip(...train): the tensors are moved to the device. *)
SampleNext ==
    /\ pc = "sample" /\ s < NumTrainSamples(nb)
    /\ s' = s + 1
    /\ iter' = iter + 1
    /\ iterLog' = <<>>
    /\ where' = [where EXCEPT !["x"] = device, !["y"] = device, !["nbhd"] = device]
    /\ pc' = "iter"
    /\ k' = 1
    /\ UNCHANGED <<env, cell, epoch, started, gradv, outv, failedAt, hist, aux>>

(* The zip over the training samples is exhausted. *)
SamplesDone ==
    /\ pc = "sample" /\ s >= NumTrainSamples(nb)
    /\ pc' = "print"
    /\ UNCHANGED <<env, cell, k, s, loopv, gradv, where, outv, iterLog, failedAt, hist, aux>>

ZeroGradKeep ==
    /\ AtStep("zero_grad")
    /\ iterLog' = Append(iterLog, "zero_grad")
    /\ StepDone
    /\ UNCHANGED <<env, loopv, gradv, where, outv, failedAt, hist, aux>>

(* optimizer.zero_grad(): clears .grad of the parameters the optimizer holds. *)
ZeroGrad ==
    /\ AtStep("zero_grad")
    /\ grad' = [g \in Groups |-> IF g \in Registered(nb) THEN {} ELSE grad[g]]
    /\ iterLog' = Append(iterLog, "zero_grad")
    /\ StepDone
    /\ UNCHANGED <<env, loopv, lastStep, updates, where, outv, failedAt, hist, aux>>

(* y_hat = model(...): returns only when every operand is on one device. *)
Forward ==
    /\ AtStep("forward")
    /\ ~Mismatch
    /\ iterLog' = Append(iterLog, "forward")
    /\ StepDone
    /\ UNCHANGED <<env, loopv, gradv, where, outv, failedAt, hist, aux>>

ForwardRaise == AtStep("forward") /\ Raise("forward")

(* loss = loss_fn(y_hat, y) *)
Loss ==
    /\ AtStep("loss")
    /\ iterLog' = Append(iterLog, "loss")
    /\ StepDone
    /\ UNCHANGED <<env, loopv, gradv, where, outv, failedAt, hist, aux>>

LossRaise == AtStep("loss") /\ Raise("loss")

(* epoch_loss.append(loss.item()) *)
AppendLoss ==
    /\ AtStep("append")
    /\ epoch_loss' = Append(epoch_loss, iter)
    /\ StepDone
    /\ UNCHANGED <<env, loopv, gradv, where, printed, tests, iterLog, failedAt, hist, aux>>

(* loss.backward(): accumulates into .grad of every parameter of the graph. *)
Backward ==
    /\ AtStep("backward")
    /\ grad' = [g \in Groups |-> grad[g] \cup {iter}]
    /\ iterLog' = Append(iterLog, "backward")
    /\ StepDone
    /\ UNCHANGED <<env, loopv, lastStep, updates, where, outv, failedAt, hist, aux>>

BackwardRaise == AtStep("backward") /\ Raise("backward")

(* optimizer.step(): updates the registered parameters from their .grad. *)
OptStep ==
    /\ AtStep("step")
    /\ lastStep' = [iter |-> iter, used |-> UNION {grad[g] : g \in Registered(nb)}]
    /\ updates' = updates + 1
    /\ iterLog' = Append(iterLog, "step")
    /\ StepDone
    /\ UNCHANGED <<env, loopv, grad, where, outv, failedAt, hist, aux>>

OptStepRaise == AtStep("step") /\ Raise("step")

(* HMPNN: model.eval(); with torch.no_grad(): y_pred_logits = model(...) *)
ValForward ==
    /\ pc = "validate" /\ k = 1
    /\ ~Mismatch
    /\ k' = 2
    /\ UNCHANGED <<env, cell, pc, s, loopv, gradv, where, outv, iterLog, failedAt, hist, aux>>

ValForwardRaise == pc = "validate" /\ k = 1 /\ Raise("val_forward")

(* HMPNN: val_loss = loss_fn(...).item(); val_acc = accuracy_score(...) *)
ValLoss ==
    /\ pc = "validate" /\ k = 2
    /\ pc' = "print"
    /\ k' = 1
    /\ UNCHANGED <<env, cell, s, loopv, gradv, where, outv, iterLog, failedAt, hist, aux>>

ValLossRaise == pc = "validate" /\ k = 2 /\ Raise("val_loss")

(* print(f"Epoch: {epoch} loss: ...") and the test_interval check after it. *)
PrintEpoch ==
    /\ pc = "print"
    /\ printed' = Append(printed, EpochLabel(nb, epoch))
    /\ pc' = IF TestDue(nb, epoch) THEN "test" ELSE "epoch"
    /\ s' = 0
    /\ UNCHANGED <<env, cell, k, loopv, gradv, where, epoch_loss, tests, iterLog,
                   failedAt, hist, aux>>

(* with torch.no_grad(): the next test sample is taken and moved to the device. *)
TestNext ==
    /\ pc = "test" /\ s < NumTestSamples(nb)
    /\ s' = s + 1
    /\ where' = IF PerSample(nb)
                THEN [where EXCEPT !["x"] = device, !["y"] = device, !["nbhd"] = device]
                ELSE where
    /\ phase' = "evaluate"
    /\ pc' = "test_forward"
    /\ UNCHANGED <<env, cell, k, loopv, gradv, outv, iterLog, failedAt, completed, aux>>

(* y_hat = model(...) of the test block. *)
TestForward ==
    /\ pc = "test_forward"
    /\ ~Mismatch
    /\ pc' = IF PerSample(nb) THEN "test_loss" ELSE "test"
    /\ UNCHANGED <<env, cell, k, s, loopv, gradv, where, outv, iterLog, failedAt, hist, aux>>

TestForwardRaise == pc = "test_forward" /\ Raise("test_forward")

(* test_loss = loss_fn(y_hat, y) *)
TestLoss ==
    /\ pc = "test_loss"
    /\ pc' = "test"
    /\ UNCHANGED <<env, cell, k, s, loopv, gradv, where, outv, iterLog, failedAt, hist, aux>>

TestLossRaise == pc = "test_loss" /\ Raise("test_loss")

(* print(f"Test_loss: ...") / print(f"Test_acc: ...") *)
TestPrint ==
    /\ pc = "test" /\ s >= NumTestSamples(nb)
    /\ tests' = Append(tests, epoch)
    /\ completed' = completed \cup {"evaluate"}
    /\ pc' = "epoch"
    /\ UNCHANGED <<env, cell, k, s, loopv, gradv, where, epoch_loss, printed, iterLog,
                   failedAt, phase, aux>>

(* HMPNN: the cell that evaluates the model against the test mask. *)
FinalTest ==
    /\ pc = "setup" /\ Cur = "test"
    /\ ~Mismatch
    /\ tests' = Append(tests, epoch)
    /\ phase' = "evaluate"
    /\ completed' = completed \cup {"evaluate"}
    /\ cell' = cell + 1
    /\ pc' = AfterCell
    /\ UNCHANGED <<env, k, s, loopv, gradv, where, epoch_loss, printed, iterLog,
                   failedAt, aux>>

FinalTestRaise == pc = "setup" /\ Cur = "test" /\ Raise("final_test")

Next ==
    \/ SelectDevice \/ LoadData \/ BuildNeighborhoods \/ PrepareInputs \/ Split
    \/ Instantiate \/ TrainBegin \/ EpochBegin \/ LoopExit \/ SampleNext \/ SamplesDone
    \/ ZeroGrad \/ Forward \/ ForwardRaise \/ Loss \/ LossRaise \/ AppendLoss
    \/ Backward \/ BackwardRaise \/ OptStep \/ OptStepRaise
    \/ ValForward \/ ValForwardRaise \/ ValLoss \/ ValLossRaise
    \/ PrintEpoch \/ TestNext \/ TestForward \/ TestForwardRaise
    \/ TestLoss \/ TestLossRaise \/ TestPrint \/ FinalTest \/ FinalTestRaise

Spec == Init /\ [][Next]_vars

(***************************************************************************)
(* Model objects and their forward (SpecForward, SpecPool).                *)
(*                                                                         *)
(* A float is a fraction num/den; den = 0 is NaN.  A tensor is a record    *)
(* [src, rows, cols]: src tells who produced it (0 the caller, -1 the      *)
(* input projection of HMPNN, j >= 1 the j-th layer object), rows holds    *)
(* one float per cell and cols is the number of channels.  The message     *)
(* passing layers are library code: what a layer returns is an input f of  *)
(* the call ("keep": finite values, "nan": every value NaN).               *)
(***************************************************************************)
Classes == {"SCoNeNN", "SCN2", "AMPSSCA", "CAN", "HMPNN"}
Pooled  == {"SCN2", "AMPSSCA", "CAN"}

MaxLayers == 2
MaxCells == 2

NaN      == [num |-> 0, den |-> 0]
Num(a)   == [num |-> a, den |-> 1]
IsNaN(v) == v.den = 0

Vals     == {NaN, Num(1), Num(-2)}
LayerFns == {"keep", "nan"}
LinParams == {[w |-> 1, b |-> 0], [w |-> 2, b |-> 1]}

SeqsUpTo(S, n) == UNION {[1..m -> S] : m \in 0..n}

(* Ranks whose features the class receives, passes through its layers, and *)
(* feeds to its readout.                                                   *)
ClassRanks(c) ==
    CASE c = "SCoNeNN" -> {1}
      [] c = "HMPNN"   -> {0, 1}
      [] OTHER         -> {0, 1, 2}

LayerRanks(c) ==
    CASE c \in {"SCoNeNN", "CAN"} -> {1}
      [] c = "HMPNN"              -> {0, 1}
      [] OTHER                    -> {0, 1, 2}

ReadoutRanks(c) ==
    CASE c = "SCoNeNN" -> {1}
      [] c = "HMPNN"   -> {0}
      [] OTHER         -> {0, 1, 2}

(* n_layers the notebooks instantiate each class with. *)
NotebookLayers(c) ==
    CASE c = "SCoNeNN" -> 10
      [] c = "AMPSSCA" -> 3
      [] OTHER         -> 2

OutColsTwo(c) == IF c = "HMPNN" THEN 7 ELSE 2

(* Columns of the result: Linear(channels, 2) in SCoNeNN, num_classes else. *)
OutCols(c) == CASE c = "SCoNeNN" -> 2 [] c = "HMPNN" -> 7 [] OTHER -> 1

(* Channels of the features the layers work on. *)
Channels(c, r) ==
    CASE c = "SCoNeNN" -> 1
      [] c = "HMPNN"   -> 8
      [] OTHER         -> (CASE r = 0 -> 6 [] r = 1 -> 10 [] r = 2 -> 7)

(* __init__: n_layers layer objects, appended in creation order. *)
MakeLayers(n) == [j \in 1..n |-> j]

(* One call of a layer object: the ranks it works on come back as new      *)
(* tensors with as many rows; the other ranks are not touched.             *)
LayerCall(c, id, x, f) ==
    [r \in DOMAIN x |->
        IF r \in LayerRanks(c)
        THEN [src |-> id,
              rows |-> [j \in 1..Len(x[r].rows) |->
                           IF f = "nan" THEN NaN ELSE x[r].rows[j]],
              cols |-> x[r].cols]
        ELSE x[r]]

Srcs(x) == [r \in DOMAIN x |-> x[r].src]

LayerEntry(id, x, nbhd, y) ==
    [op |-> "layer", id |-> id, xin |-> Srcs(x), nbhd |-> nbhd, xout |-> Srcs(y)]

RECURSIVE ApplyLayersNoChain(_, _, _, _, _, _)
ApplyLayersNoChain(c, layers, j, x, nbhd, f) ==
    IF j > Len(layers)
    THEN [x |-> x, log |-> <<>>]
    ELSE LET y    == LayerCall(c, layers[j], x, f)
             rest == ApplyLayersNoChain(c, layers, j + 1, x, nbhd, f)
         IN  [x   |-> IF j = Len(layers) THEN y ELSE rest.x,
              log |-> <<LayerEntry(layers[j], x, nbhd, y)>> \o rest.log]

(* for layer in self.layers: x = layer(x, <neighborhood matrices>) *)
RECURSIVE ApplyLayers(_, _, _, _, _, _)
ApplyLayers(c, layers, j, x, nbhd, f) ==
    IF j > Len(layers)
    THEN [x |-> x, log |-> <<>>]
    ELSE LET y    == LayerCall(c, layers[j], x, f)
             rest == ApplyLayers(c, layers, j + 1, y, nbhd, f)
         IN  [x   |-> rest.x,
              log |-> <<LayerEntry(layers[j], x, nbhd, y)>> \o rest.log]

(* torch.nn.Linear on one row: NaN in, NaN out. *)
LinearVal(lin, v) == IF IsNaN(v) THEN NaN ELSE Num(lin.w * v.num + lin.b)

LinearRows(lin, rows) == [j \in 1..Len(rows) |-> LinearVal(lin, rows[j])]

RECURSIVE NanSum(_, _)
NanSum(rows, j) ==
    IF j > Len(rows) THEN 0
    ELSE (IF IsNaN(rows[j]) THEN 0 ELSE rows[j].num) + NanSum(rows, j + 1)

RECURSIVE NanCount(_, _)
NanCount(rows, j) ==
    IF j > Len(rows) THEN 0
    ELSE (IF IsNaN(rows[j]) THEN 0 ELSE 1) + NanCount(rows, j + 1)

(* torch.nanmean(x, dim=0): sum of the non-NaN entries over their number;  *)
(* 0/0, that is NaN, when there is none.                                   *)
NanMean(rows) == [num |-> NanSum(rows, 1), den |-> NanCount(rows, 1)]

MaskNaNSkip(m) == m

(* mean[torch.isnan(mean)] = 0 *)
MaskNaN(m) == IF IsNaN(m) THEN Num(0) ELSE m

(* Float addition: NaN if either operand is. *)
AddF(a, b) ==
    IF IsNaN(a) \/ IsNaN(b) THEN NaN
    ELSE [num |-> a.num * b.den + b.num * a.den, den |-> a.den * b.den]

(* HMPNN: x = self.to_hidden_linear(x) on node and hyperedge features. *)
HiddenLinear(c, lin, x) ==
    IF c = "HMPNN"
    THEN [r \in DOMAIN x |->
            [src |-> -1, rows |-> LinearRows(lin, x[r].rows), cols |-> Channels(c, r)]]
    ELSE x

HiddenLog(c, x, nbhd) ==
    IF c = "HMPNN"
    THEN <<[op |-> "hidden_linear", id |-> 0, xin |-> Srcs(x), nbhd |-> nbhd,
            xout |-> [r \in DOMAIN x |-> -1]]>>
    ELSE <<>>

(* Shape of a feature tensor: [number of cells, channels]. *)
ShapeOf(t) == <<Len(t.rows), t.cols>>

LinearShapeKeep(sh, out) == sh

(* torch.nn.Linear(in, out) on a tensor of shape [n, in]: [n, out]. *)
LinearShape(sh, out) == <<sh[1], out>>

MeanDim1Shape(sh) == <<sh[1]>>

(* torch.nanmean(x, dim=0) on a tensor of shape [n, k]: [k]. *)
MeanDim0Shape(sh) == <<sh[2]>>

(* Shape of a + b for two vectors (broadcasting a length of 1). *)
BroadcastShape(a, b) ==
    IF a = b THEN a ELSE IF a = <<1>> THEN b ELSE IF b = <<1>> THEN a ELSE <<>>

(* The statements of forward after the layer loop. *)
Readout(c, lin, x) ==
    LET proj  == [r \in ReadoutRanks(c) |-> LinearRows(lin, x[r].rows)]
        means == [r \in ReadoutRanks(c) |-> MaskNaN(NanMean(proj[r]))]
        psh   == [r \in ReadoutRanks(c) |-> LinearShape(ShapeOf(x[r]), OutCols(c))]
        msh   == [r \in ReadoutRanks(c) |-> MeanDim0Shape(psh[r])]
    IN  IF c \in Pooled
        THEN [proj  |-> proj,
              means |-> means,
              shape |-> BroadcastShape(BroadcastShape(msh[2], msh[1]), msh[0]),
              rows  |-> <<AddF(AddF(means[2], means[1]), means[0])>>]
        ELSE [proj  |-> proj,
              means |-> [r \in ReadoutRanks(c) |-> NaN],
              shape |-> psh[CHOOSE r \in ReadoutRanks(c) : TRUE],
              rows  |-> proj[CHOOSE r \in ReadoutRanks(c) : TRUE]]

(* forward(self, x..., neighborhood matrices...) *)
ForwardCall(c, layers, lin, x, nbhd, f) ==
    LET h   == HiddenLinear(c, lin, x)
        st  == ApplyLayers(c, layers, 1, h, nbhd, f)
        out == Readout(c, lin, st.x)
    IN  [out |-> out,
         log |-> HiddenLog(c, x, nbhd) \o st.log \o
                 <<[op |-> "readout", id |-> 0, xin |-> Srcs(st.x), nbhd |-> "none",
                    xout |-> Srcs(st.x)]>>]

InputTensor(c, r, rows) == [src |-> 0, rows |-> rows, cols |-> Channels(c, r)]

AllInputs(c) ==
    {[r \in ClassRanks(c) |-> InputTensor(c, r, q[r])] :
        q \in [ClassRanks(c) -> SeqsUpTo(Vals, MaxCells)]}

SmallInputs(c) ==
    {[r \in ClassRanks(c) |-> InputTensor(c, r, q)] : q \in SeqsUpTo(Vals, MaxCells)}

NoResult == [out |-> [proj |-> <<>>, means |-> <<>>, shape |-> <<>>, rows |-> <<>>],
             log |-> <<>>]

RunOff ==
    /\ nb = "none" /\ device = "none" /\ cell = 0 /\ pc = "off" /\ k = 0 /\ s = 0
    /\ epoch = 0 /\ started = 0 /\ iter = 0 /\ grad = [g \in Groups |-> {}]
    /\ lastStep = [iter |-> 0, used |-> {}] /\ updates = 0
    /\ where = [t \in Tensors |-> "none"] /\ epoch_loss = <<>> /\ printed = <<>>
    /\ tests = <<>> /\ iterLog = <<>> /\ failedAt = "none" /\ phase = "none"
    /\ completed = {}

runv == <<nb, device, cell, pc, k, s, epoch, started, iter, grad, lastStep, updates,
          where, epoch_loss, printed, tests, iterLog, failedAt, phase, completed>>

FwNew(c) == [pc |-> "new", cls |-> c, n_layers |-> 0, layers |-> <<>>,
             lin |-> [w |-> 0, b |-> 0], x |-> <<>>, nbhd |-> "none", f |-> "none",
             res |-> NoResult]

InitForward == RunOff /\ sc = Off /\ hm = Off /\ rec = Off /\ \E c \in Classes : fw = FwNew(c)

(* model = Class(..., n_layers=n) *)
Construct ==
    /\ fw.pc = "new"
    /\ \E n \in 0..MaxLayers, lin \in LinParams :
          fw' = [fw EXCEPT !.pc = "built", !.n_layers = n, !.layers = MakeLayers(n),
                           !.lin = lin]
    /\ UNCHANGED <<runv, sc, hm, rec>>

(* y_hat = model(x..., neighborhood matrices...) *)
Call ==
    /\ fw.pc = "built"
    /\ \E x \in SmallInputs(fw.cls), f \in LayerFns :
          fw' = [fw EXCEPT !.pc = "called", !.x = x, !.nbhd = "nbhd", !.f = f,
                           !.res = ForwardCall(fw.cls, fw.layers, fw.lin, x, "nbhd", f)]
    /\ UNCHANGED <<runv, sc, hm, rec>>

NextForward == Construct \/ Call

SpecForward == InitForward /\ [][NextForward]_vars

(* The three pooling models as the notebooks instantiate them, the weight  *)
(* and bias of every readout Linear being 2 and 1.                         *)
InitPool ==
    /\ RunOff /\ sc = Off /\ hm = Off /\ rec = Off
    /\ \E c \in Pooled :
          fw = [FwNew(c) EXCEPT !.pc = "built", !.n_layers = NotebookLayers(c),
                                !.layers = MakeLayers(NotebookLayers(c)),
                                !.lin = [w |-> 2, b |-> 1]]

PoolCall ==
    /\ fw.pc = "built"
    /\ \E x \in AllInputs(fw.cls), f \in LayerFns :
          fw' = [fw EXCEPT !.pc = "called", !.x = x, !.nbhd = "nbhd", !.f = f,
                           !.res = ForwardCall(fw.cls, fw.layers, fw.lin, x, "nbhd", f)]
    /\ UNCHANGED <<runv, sc, hm, rec>>

SpecPool == InitPool /\ [][PoolCall]_vars

(***************************************************************************)
(* Forward calls on complexes of every size (SpecShape): the models as the *)
(* notebooks instantiate them, called on a complex with cells[r] cells of  *)
(* rank r (nodes, edges, faces).                                           *)
(***************************************************************************)
CellCounts == [0..2 -> 0..MaxCells]

(* Features of n cells. *)
RowsOf(n) == [j \in 1..n |-> Num(1)]

(* The feature tensors of the complex that the class is given. *)
ComplexInputs(c, cells) ==
    [r \in ClassRanks(c) |-> InputTensor(c, r, RowsOf(cells[r]))]

ShNew(c, cells) ==
    [pc |-> "built", cls |-> c, n_layers |-> NotebookLayers(c),
     layers |-> MakeLayers(NotebookLayers(c)), lin |-> [w |-> 2, b |-> 1],
     x |-> <<>>, nbhd |-> "none", f |-> "none", res |-> NoResult, cells |-> cells]

InitShape ==
    /\ RunOff /\ sc = Off /\ hm = Off /\ rec = Off
    /\ \E c \in Classes, cells \in CellCounts : fw = ShNew(c, cells)

ShapeCall ==
    /\ fw.pc = "built"
    /\ \E f \in LayerFns :
          LET x == ComplexInputs(fw.cls, fw.cells)
          IN  fw' = [fw EXCEPT !.pc = "called", !.x = x, !.nbhd = "nbhd", !.f = f,
                               !.res = ForwardCall(fw.cls, fw.layers, fw.lin, x, "nbhd", f)]
    /\ UNCHANGED <<runv, sc, hm, rec>>

SpecShape == InitShape /\ [][ShapeCall]_vars

(***************************************************************************)
(* One forward call, statement by statement, on a heap of tensor objects   *)
(* (SpecFrame).  The caller owns the first objects of the heap: the input  *)
(* features of each rank, the neighborhood matrices, the parameters of the *)
(* readout and those of the layers.  A name of forward is bound to an      *)
(* object; an assignment rebinds the name, an indexed assignment writes    *)
(* into the object the name is bound to.                                   *)
(***************************************************************************)
(* The ranks of S in increasing order. *)
RankSeq(S) == SelectSeq(<<0, 1, 2>>, LAMBDA r : r \in S)

RankPos(S, r) == Cardinality({q \in S : q < r}) + 1

(* The object the caller passes as x_r. *)
ArgId(c, r) == RankPos(ClassRanks(c), r)

(* The object holding the parameters of the readout: the caller's objects *)
(* are the arguments, the neighborhood matrices, these, and the layers'.   *)
ParamId(c) == Cardinality(ClassRanks(c)) + 2

(* The objects of the caller: arguments of the call and model parameters. *)
CallerHeap(c, x, lin) ==
    [i \in 1..Cardinality(ClassRanks(c)) |-> x[RankSeq(ClassRanks(c))[i]]]
    \o << [src |-> 0, rows |-> <<Num(1)>>, cols |-> 1],
          [src |-> 0, rows |-> <<Num(lin.w), Num(lin.b)>>, cols |-> 2],
          [src |-> 0, rows |-> <<Num(1)>>, cols |-> 1] >>

(* New objects for the ranks of S, after the objects the heap holds. *)
Alloc(heap, S, val) == heap \o [i \in 1..Cardinality(S) |-> val[RankSeq(S)[i]]]

NewId(heap, S, r) == Len(heap) + RankPos(S, r)

(* self.lin_r as stored in the parameter object. *)
LinOf(heap, c) == [w |-> heap[ParamId(c)].rows[1].num, b |-> heap[ParamId(c)].rows[2].num]

MaskTargetArgument(f, r) == ArgId(f.cls, r)

(* mean[torch.isnan(mean)] = 0 writes into the object bound to the mean. *)
MaskTarget(f, r) == f.means[r]

(* t[torch.isnan(t)] = 0, in place. *)
InPlaceMask(heap, id) ==
    [heap EXCEPT ![id].rows = [i \in 1..Len(@) |-> MaskNaN(@[i])]]

(* The ranks in the order forward pools them. *)
PoolOrder == <<2, 1, 0>>

FrNew(c) ==
    [pc |-> "built", cls |-> c, n_layers |-> NotebookLayers(c),
     layers |-> MakeLayers(NotebookLayers(c)), j |-> 0, q |-> 0, f |-> "none",
     heap |-> <<>>, before |-> <<>>, caller |-> 0,
     names |-> [r \in ClassRanks(c) |-> 0], means |-> [r \in ReadoutRanks(c) |-> 0],
     out |-> 0]

InitFrame ==
    /\ RunOff /\ sc = Off /\ hm = Off /\ rec = Off
    /\ \E c \in Classes : fw = FrNew(c)

(* y_hat = model(...): the parameters of forward are bound to the arguments. *)
FrameCall ==
    /\ fw.pc = "built"
    /\ \E x \in SmallInputs(fw.cls), f \in LayerFns :
          LET h == CallerHeap(fw.cls, x, [w |-> 2, b |-> 1])
          IN  fw' = [fw EXCEPT !.pc = IF fw.cls = "HMPNN" THEN "hidden" ELSE "layers",
                               !.f = f, !.heap = h, !.before = h, !.caller = Len(h),
                               !.j = 1,
                               !.names = [r \in ClassRanks(fw.cls) |-> ArgId(fw.cls, r)]]
    /\ UNCHANGED <<runv, sc, hm, rec>>

(* HMPNN: x_0 = self.to_hidden_linear(x_0); x_1 = self.to_hidden_linear(x_1) *)
FrameHidden ==
    /\ fw.pc = "hidden"
    /\ LET cur == [r \in ClassRanks(fw.cls) |-> fw.heap[fw.names[r]]]
           y   == HiddenLinear(fw.cls, LinOf(fw.heap, fw.cls), cur)
       IN  fw' = [fw EXCEPT !.pc = "layers",
                            !.heap = Alloc(fw.heap, ClassRanks(fw.cls), y),
                            !.names = [r \in ClassRanks(fw.cls) |->
                                          NewId(fw.heap, ClassRanks(fw.cls), r)]]
    /\ UNCHANGED <<runv, sc, hm, rec>>

(* x = layer(x, ...): the names of the ranks the layer returns are rebound. *)
FrameLayer ==
    /\ fw.pc = "layers" /\ fw.j <= fw.n_layers
    /\ LET cur == [r \in ClassRanks(fw.cls) |-> fw.heap[fw.names[r]]]
           y   == LayerCall(fw.cls, fw.layers[fw.j], cur, fw.f)
           lr  == LayerRanks(fw.cls)
       IN  fw' = [fw EXCEPT !.j = fw.j + 1,
                            !.heap = Alloc(fw.heap, lr, y),
                            !.names = [r \in ClassRanks(fw.cls) |->
                                          IF r \in lr THEN NewId(fw.heap, lr, r)
                                          ELSE fw.names[r]]]
    /\ UNCHANGED <<runv, sc, hm, rec>>

(* x_r = self.lin_r(x_r) *)
FrameLinear ==
    /\ fw.pc = "layers" /\ fw.j > fw.n_layers
    /\ LET rr == ReadoutRanks(fw.cls)
           y  == [r \in rr |->
                    [src |-> -2,
                     rows |-> LinearRows(LinOf(fw.heap, fw.cls), fw.heap[fw.names[r]].rows),
                     cols |-> OutCols(fw.cls)]]
       IN  fw' = [fw EXCEPT !.pc = IF fw.cls \in Pooled THEN "mean" ELSE "return",
                            !.q = 1,
                            !.heap = Alloc(fw.heap, rr, y),
                            !.names = [r \in ClassRanks(fw.cls) |->
                                          IF r \in rr THEN NewId(fw.heap, rr, r)
                                          ELSE fw.names[r]]]
    /\ UNCHANGED <<runv, sc, hm, rec>>

(* mean = torch.nanmean(x_r, dim=0) *)
FrameMean ==
    /\ fw.pc = "mean"
    /\ LET r == PoolOrder[fw.q]
           m == [src |-> -3, rows |-> <<NanMean(fw.heap[fw.names[r]].rows)>>,
                 cols |-> OutCols(fw.cls)]
       IN  fw' = [fw EXCEPT !.pc = "mask", !.heap = Append(fw.heap, m),
                            !.means[r] = Len(fw.heap) + 1]
    /\ UNCHANGED <<runv, sc, hm, rec>>

(* mean[torch.isnan(mean)] = 0 *)
FrameMask ==
    /\ fw.pc = "mask"
    /\ fw' = [fw EXCEPT !.pc = IF fw.q < Len(PoolOrder) THEN "mean" ELSE "return",
                        !.q = IF fw.q < Len(PoolOrder) THEN fw.q + 1 ELSE fw.q,
                        !.heap = InPlaceMask(fw.heap, MaskTarget(fw, PoolOrder[fw.q]))]
    /\ UNCHANGED <<runv, sc, hm, rec>>

(* return ...: the sum of the means, softmax(x_1), or the projected x_0. *)
FrameReturn ==
    /\ fw.pc = "return"
    /\ LET c == fw.cls
           v == IF c \in Pooled
                THEN [src |-> -4,
                      rows |-> <<AddF(AddF(fw.heap[fw.means[2]].rows[1],
                                           fw.heap[fw.means[1]].rows[1]),
                                      fw.heap[fw.means[0]].rows[1])>>,
                      cols |-> OutCols(c)]
                ELSE [src |-> -4,
                      rows |-> fw.heap[fw.names[CHOOSE r \in ReadoutRanks(c) : TRUE]].rows,
                      cols |-> OutCols(c)]
       IN  IF c = "HMPNN"
           THEN fw' = [fw EXCEPT !.pc = "returned",
                                 !.out = fw.names[CHOOSE r \in ReadoutRanks(c) : TRUE]]
           ELSE fw' = [fw EXCEPT !.pc = "returned", !.heap = Append(fw.heap, v),
                                 !.out = Len(fw.heap) + 1]
    /\ UNCHANGED <<runv, sc, hm, rec>>

NextFrame ==
    \/ FrameCall \/ FrameHidden \/ FrameLayer \/ FrameLinear
    \/ FrameMean \/ FrameMask \/ FrameReturn

SpecFrame == InitFrame /\ [][NextFrame]_vars

(***************************************************************************)
(* The output recorded in the notebooks for each training cell (SpecLoss): *)
(* the training loss each epoch printed, in units of 0.0001.               *)
(***************************************************************************)
Runs == {"SCoNe", "SCN2", "SCA", "CAN", "CANatt", "HMPNN"}

RecordedLoss(run) ==
    CASE run = "SCoNe" ->
           <<7211, 7185, 7205, 7210, 7205, 7194>>
      [] run = "SCN2" ->
           <<3073329, 2710158, 2113648, 1332150, 865624, 782548, 778108,
             777633>>
      [] run = "SCA" ->
           <<2101507, 1171641, 861666, 778968, 758498, 751832>>
      [] run = "CAN" ->
           <<893527, 819469, 811082, 803476, 796493, 790137, 784377,
             779167, 774454, 770191>>
      [] run = "CANatt" ->
           <<966442, 768734, 762222, 754701, 747502, 740797, 734617,
             728948, 723760, 719013>>
      [] run = "HMPNN" ->
           <<21079, 20234, 19800, 19504, 19194, 19241, 18917, 18710, 18574,
             18646, 18540, 18430, 18336, 18405, 18264, 18065, 18158, 17957,
             18028, 17882, 17912, 17610, 17617, 17596, 17391, 17315, 17365,
             17184, 17085, 16815, 16673, 16846, 16483, 16436, 16353, 16336,
             15938, 15886, 15974, 15600, 15445, 15501, 15397, 15096, 14992,
             15020, 14710, 14608, 14341, 14428, 14209, 14151, 14090, 14021,
             13847, 13907, 13434, 13253, 13380, 12933, 13124, 13091, 12768,
             12749, 12740, 12773, 12430, 12020, 11958, 11895, 12008, 11573,
             11751, 11889, 11762, 11737, 11242, 10648, 10717, 10568, 10650,
             10475, 10293, 10494, 10200, 10358, 9877, 10173, 9744, 9497,
             9345, 9636, 9197, 8984, 8895, 9048, 8737, 9479, 8906, 8589>>

RECURSIVE SumTo(_, _)
SumTo(q, e) == IF e = 0 THEN 0 ELSE q[e] + SumTo(q, e - 1)

LossPrintedRunningMean(run, e) == SumTo(RecordedLoss(run), e) \div e

(* What the print statement of epoch e showed as loss: np.mean(epoch_loss), *)
(* epoch_loss holding the losses of that epoch only.                        *)
LossPrinted(run, e) == RecordedLoss(run)[e]

InitLoss ==
    /\ RunOff /\ fw = Off /\ sc = Off /\ hm = Off
    /\ \E run \in Runs : rec = [run |-> run, losses |-> <<>>]

(* The print statement of the next epoch. *)
PrintLoss ==
    /\ Len(rec.losses) < Len(RecordedLoss(rec.run))
    /\ rec' = [rec EXCEPT !.losses = Append(@, LossPrinted(rec.run, Len(rec.losses) + 1))]
    /\ UNCHANGED <<runv, fw, sc, hm>>

SpecLoss == InitLoss /\ [][PrintLoss]_vars

(***************************************************************************)
(* SCoNe: labels, inputs and the train/test split (SpecData).              *)
(***************************************************************************)
(* Number of edges of the complex (78 in the karate club data set, which   *)
(* is also the literal of indices = np.arange(78)).                        *)
NumEdges == 4

(* edge_feat of one edge: (first feature, second feature). *)
PairVals == {<<2, -1>>, <<-1, 0>>, <<-2, 1>>}

LabelOfNonNegative(pair) == IF pair[2] >= 0 THEN <<1, 0>> ELSE <<0, 1>>

(* if pair[1] > 0: y.append([1, 0]) else: y.append([0, 1]) *)
LabelOf(pair) == IF pair[2] > 0 THEN <<1, 0>> ELSE <<0, 1>>

(* x_1.append([pair[0]]) *)
InputOf(pair) == <<pair[1]>>

(* np.arange(n) *)
Arange(n) == [j \in 1..n |-> j - 1]

(* a[idx] for a list idx of 0-based positions. *)
Take(a, idx) == [j \in 1..Len(idx) |-> a[idx[j] + 1]]

(* ShuffleSplit: the first ceil(test_size * n) entries of the permutation  *)
(* are the test positions, the rest the train positions.                   *)
TestPositions(perm, n) == [j \in 1..NumTestOf(n) |-> perm[j] - 1]

TrainPositionsOverlap(perm, n) ==
    [j \in 1..(NumTrainOf(n) + 1) |-> perm[NumTestOf(n) + j - 1] - 1]

TrainPositions(perm, n) == [j \in 1..NumTrainOf(n) |-> perm[NumTestOf(n) + j] - 1]

(* train_test_split(a, b, test_size=0.2, shuffle=True): one permutation    *)
(* for both arrays; returns a_train, a_test, b_train, b_test.              *)
TrainTestSplit(a, b, perm) ==
    LET n == Len(a)
    IN  << Take(a, TrainPositions(perm, n)), Take(a, TestPositions(perm, n)),
           Take(b, TrainPositions(perm, n)), Take(b, TestPositions(perm, n)) >>

ScNew(ef) == [pc |-> "loaded", edge_feat |-> ef, x_1 |-> <<>>, y |-> <<>>,
              y_train |-> <<>>, y_test |-> <<>>, train_indices |-> <<>>,
              test_indices |-> <<>>, cmp_train |-> <<>>, cmp_test |-> <<>>]

InitData ==
    /\ RunOff /\ fw = Off /\ hm = Off /\ rec = Off
    /\ \E ef \in [1..NumEdges -> PairVals] : sc = ScNew(ef)

(* The cell "Defining Labels and Preparing Input". *)
BuildLabels ==
    /\ sc.pc = "loaded"
    /\ sc' = [sc EXCEPT !.pc = "labelled",
                        !.x_1 = [j \in 1..Len(sc.edge_feat) |-> InputOf(sc.edge_feat[j])],
                        !.y   = [j \in 1..Len(sc.edge_feat) |-> LabelOf(sc.edge_feat[j])]]
    /\ UNCHANGED <<runv, fw, hm, rec>>

(* The cell "Train/Test Split". *)
SplitLabels ==
    /\ sc.pc = "labelled"
    /\ \E perm \in Permutations(1..Len(sc.y)) :
          LET r == TrainTestSplit(sc.y, Arange(NumEdges), perm)
          IN  sc' = [sc EXCEPT !.pc = "split", !.y_train = r[1], !.y_test = r[2],
                               !.train_indices = r[3], !.test_indices = r[4]]
    /\ UNCHANGED <<runv, fw, hm, rec>>

(* The rows the loss and the accuracies put side by side:                  *)
(* y_hat[train_indices] with y_train, y_pred_test[test_indices] with y_test *)
Compare ==
    /\ sc.pc = "split"
    /\ sc' = [sc EXCEPT !.pc = "compared",
                        !.cmp_train = [j \in 1..Len(sc.train_indices) |->
                                          [row |-> sc.train_indices[j], label |-> sc.y_train[j]]],
                        !.cmp_test  = [j \in 1..Len(sc.test_indices) |->
                                          [row |-> sc.test_indices[j], label |-> sc.y_test[j]]]]
    /\ UNCHANGED <<runv, fw, hm, rec>>

NextData == BuildLabels \/ SplitLabels \/ Compare

SpecData == InitData /\ [][NextData]_vars

(***************************************************************************)
(* HMPNN: the matrix given to the model as incidence_1 (SpecIncidence).    *)
(***************************************************************************)
(* Number of nodes of the graph (2708 in Cora). *)
NumNodes == 4

UndirectedPairs == {p \in (0..(NumNodes - 1)) \X (0..(NumNodes - 1)) : p[1] < p[2]}

(* Both directions of every undirected edge. *)
Directed(U) == U \cup {<<p[2], p[1]>> : p \in U}

RECURSIVE SortedPairs(_)
SortedPairs(D) ==
    IF D = {} THEN <<>>
    ELSE LET m == CHOOSE p \in D :
                     \A q \in D : p[1] * NumNodes + p[2] <= q[1] * NumNodes + q[2]
         IN  <<m>> \o SortedPairs(D \ {m})

(* dataset["edge_index"]: a 2 x E tensor, row 1 the sources, row 2 the targets. *)
EdgeIndexOf(U) ==
    LET sq == SortedPairs(Directed(U))
    IN  << [e \in 1..Len(sq) |-> sq[e][1]], [e \in 1..Len(sq) |-> sq[e][2]] >>

MaxPlusOne(q) == IF Len(q) = 0 THEN 0
                 ELSE 1 + (CHOOSE m \in {q[e] : e \in 1..Len(q)} :
                              \A e \in 1..Len(q) : q[e] <= m)

NodeEdgeIncidence(idx, vals) ==
    [shape |-> <<NumNodes, Len(idx[1])>>,
     nz    |-> {<<idx[1][e], e - 1>> : e \in 1..Len(idx[1])}
               \cup {<<idx[2][e], e - 1>> : e \in 1..Len(idx[1])},
     val   |-> [p \in {<<idx[1][e], e - 1>> : e \in 1..Len(idx[1])}
                      \cup {<<idx[2][e], e - 1>> : e \in 1..Len(idx[1])} |-> 1]]

(* torch.sparse_coo_tensor(indices, values): entry (indices[0][e],         *)
(* indices[1][e]) holds the sum of the values given for it; the size is    *)
(* the largest index of each row of indices, plus one.                     *)
SparseCoo(idx, vals) ==
    LET pos == {<<idx[1][e], idx[2][e]>> : e \in 1..Len(idx[1])}
    IN  [shape |-> <<MaxPlusOne(idx[1]), MaxPlusOne(idx[2])>>,
         nz    |-> pos,
         val   |-> [p \in pos |->
                      Cardinality({e \in 1..Len(idx[1]) :
                                      <<idx[1][e], idx[2][e]>> = p /\ vals[e] = 1})]]

(* torch.ones(n) *)
Ones(n) == [e \in 1..n |-> 1]

NoMatrix == [shape |-> <<0, 0>>, nz |-> {}, val |-> <<>>]

HmNew(U) == [pc |-> "loaded", n_nodes |-> NumNodes, edge_index |-> EdgeIndexOf(U),
             incidence_1 |-> NoMatrix, arg_incidence_1 |-> NoMatrix, arg_x_1_rows |-> 0]

InitIncidence ==
    /\ RunOff /\ fw = Off /\ sc = Off /\ rec = Off
    /\ \E U \in SUBSET UndirectedPairs : hm = HmNew(U)

(* dataset["incidence_1"] = torch.sparse_coo_tensor(edge_index, ones(E)) *)
BuildIncidence ==
    /\ hm.pc = "loaded"
    /\ hm' = [hm EXCEPT !.pc = "built",
                        !.incidence_1 = SparseCoo(hm.edge_index, Ones(Len(hm.edge_index[1])))]
    /\ UNCHANGED <<runv, fw, sc, rec>>

(* initial_x_1 = zeros_like(dataset["x"]); model(x, initial_x_1, incidence_1) *)
CallModel ==
    /\ hm.pc = "built"
    /\ hm' = [hm EXCEPT !.pc = "called", !.arg_incidence_1 = hm.incidence_1,
                        !.arg_x_1_rows = hm.n_nodes]
    /\ UNCHANGED <<runv, fw, sc, rec>>

NextIncidence == BuildIncidence \/ CallModel

SpecIncidence == InitIncidence /\ [][NextIncidence]_vars

(* The notebook kernel executes the next statement whenever there is one. *)
FairSpec == Spec /\ WF_vars(Next)

(***************************************************************************)
(* Claims about a notebook run (Spec, FairSpec).                           *)
(***************************************************************************)
FiveSteps == <<"zero_grad", "forward", "loss", "backward", "step">>

IsPrefix(a, b) == Len(a) <= Len(b) /\ \A j \in 1..Len(a) : a[j] = b[j]

AtForward ==
    \/ AtStep("forward")
    \/ pc = "test_forward"
    \/ (pc = "validate" /\ k = 1)
    \/ (pc = "setup" /\ Cur = "test")

(* C1: in every training iteration of every notebook the steps run in the   *)
(* order zero_grad, forward, loss, backward, optimizer step; an iteration   *)
(* that is over has run all five; and every optimizer step consumes the     *)
(* gradients of exactly one backward pass, that of its own iteration.       *)
C1_TrainingStepOrder ==
    /\ IsPrefix(iterLog, FiveSteps)
    /\ (iter > 0 /\ pc \notin {"iter", "failed"}) => iterLog = FiveSteps
    /\ updates > 0 => lastStep.used = {lastStep.iter}

C1_Witness ==
    /\ nb = "SCoNe" /\ updates = 2 /\ lastStep.iter = 2
    /\ grad["layers"] = {1, 2}

PrevPhase(p) ==
    CASE p = "build"       -> "load"
      [] p = "instantiate" -> "build"
      [] p = "train"       -> "instantiate"
      [] p = "evaluate"    -> "train"

(* C2 as stated: the phases load, build, instantiate, train, evaluate each  *)
(* begin only after the phase before has run to completion.                 *)
C2_PhasesStrictlySequential ==
    [][(phase' # phase /\ phase' \in {"build", "instantiate", "train", "evaluate"})
          => PrevPhase(phase') \in completed]_vars

(* C2 amended: load, build, instantiate and train begin in that order, each *)
(* after the one before has completed; the test evaluation of HMPNN begins  *)
(* after the training loop has completed, and that of SCoNe, SCN2, SCA and  *)
(* CAN begins inside the training loop, right after the training part of an *)
(* epoch whose number is a positive multiple of test_interval was printed.  *)
C2_PhaseOrder ==
    [][phase' # phase =>
          CASE phase' = "build"       -> "load" \in completed
            [] phase' = "instantiate" -> "build" \in completed
            [] phase' = "train"       -> "instantiate" \in completed
            [] phase' = "evaluate"    ->
                 IF nb = "HMPNN"
                 THEN "train" \in completed
                 ELSE /\ "train" \notin completed
                      /\ "instantiate" \in completed
                      /\ Len(printed) = epoch
                      /\ epoch >= TestInterval(nb)
                      /\ epoch % TestInterval(nb) = 0
            [] OTHER -> TRUE]_vars

C2_Witness == nb = "CAN" /\ phase = "evaluate" /\ "train" \notin completed /\ epoch = 2

C4_Inv ==
    /\ Len(printed) <= NumEpochs(nb)
    /\ \A j \in 1..Len(printed) : printed[j] = j
    /\ "train" \in completed => Len(printed) = NumEpochs(nb)
    /\ pc \in {"iter", "sample", "validate", "print"} => Len(printed) = started - 1
    /\ pc \in {"epoch", "test", "test_forward", "test_loss"} => Len(printed) = started

(* C4: every training loop ends; one that ends without an exception has run *)
(* exactly num_epochs epochs; every epoch prints its training loss exactly  *)
(* once, and the printed epoch numbers are 1, 2, ..., num_epochs in order.  *)
C4_ExactlyNumEpochs == <>(pc \in {"done", "failed"}) /\ []C4_Inv

C4_Witness == nb = "HMPNN" /\ pc = "done" /\ Len(printed) = 100 /\ printed[100] = 100

(* C5: a statement that raises stops the run at that statement: the run is  *)
(* then failed, nothing was updated, appended or printed by the failing     *)
(* statement, and no statement is executed after it.                        *)
C5_FailureStopsRun ==
    [][failedAt' # "none" =>
          /\ failedAt = "none"
          /\ pc' = "failed"
          /\ UNCHANGED <<updates, grad, lastStep, epoch_loss, printed, tests, cell>>]_vars

C5_Witness == pc = "failed" /\ failedAt = "backward" /\ updates = 1 /\ nb = "SCN2"

(* C7: whenever a forward pass is about to run, every model parameter and   *)
(* every tensor given to it is on the selected device.                      *)
C7_EverythingOnDevice ==
    AtForward => \A t \in ForwardTensors(nb) : where[t] = device

(***************************************************************************)
(* Claims about a forward call (SpecForward, SpecPool).                    *)
(***************************************************************************)
LayerOffset(c) == IF c = "HMPNN" THEN 1 ELSE 0

FirstSrc(c) == IF c = "HMPNN" THEN -1 ELSE 0

(* C3: a forward call applies exactly n_layers layer objects, the j-th call *)
(* being made on the j-th object of the list with the neighborhood matrices *)
(* given to forward; the first layer gets the features forward was given    *)
(* (after the input projection in HMPNN), layer j+1 gets what layer j       *)
(* returned, and the readout comes last, on what the last layer returned.   *)
C3_LayersInSequence ==
    fw.pc = "called" =>
        LET log == fw.res.log
            n   == fw.n_layers
            off == LayerOffset(fw.cls)
            lr  == LayerRanks(fw.cls)
        IN  /\ Cardinality({j \in 1..Len(log) : log[j].op = "layer"}) = n
            /\ Len(log) = off + n + 1
            /\ \A j \in 1..n :
                  /\ log[off + j].op = "layer"
                  /\ log[off + j].id = fw.layers[j]
                  /\ log[off + j].nbhd = fw.nbhd
                  /\ \A r \in lr :
                        /\ log[off + j].xout[r] = fw.layers[j]
                        /\ log[off + j].xin[r] =
                              IF j = 1 THEN FirstSrc(fw.cls) ELSE log[off + j - 1].xout[r]
                  /\ \A r \in ClassRanks(fw.cls) \ lr : log[off + j].xout[r] = 0
            /\ log[Len(log)].op = "readout"
            /\ \A r \in lr :
                  log[Len(log)].xin[r] = IF n = 0 THEN FirstSrc(fw.cls) ELSE fw.layers[n]

C3_Witness ==
    /\ fw.pc = "called" /\ fw.cls = "AMPSSCA" /\ fw.n_layers = 2
    /\ Len(fw.x[1].rows) = 2

RECURSIVE SumOver(_, _)
SumOver(S, P) ==
    IF S = {} THEN 0
    ELSE LET j == CHOOSE i \in S : TRUE IN P[j].num + SumOver(S \ {j}, P)

(* The features the readout of a pooling model projects. *)
FedToReadout(r) ==
    IF fw.n_layers > 0 /\ r \in LayerRanks(fw.cls) /\ fw.f = "nan"
    THEN [j \in 1..Len(fw.x[r].rows) |-> NaN]
    ELSE fw.x[r].rows

(* C6: in SCN2, AMPSSCA and CAN, for each rank the projected features have  *)
(* one entry per cell, NaN where the feature is NaN; the mean of the rank   *)
(* is taken over the entries that are not NaN, and is 0 when there is none; *)
(* the result is the sum of the three means and is never NaN.               *)
C6_NanMeanThenZero ==
    fw.pc = "called" =>
        LET o == fw.res.out
            m == o.means
            y == o.rows[1]
        IN  /\ \A r \in {0, 1, 2} :
                  LET P == o.proj[r]
                      G == {j \in 1..Len(P) : ~IsNaN(P[j])}
                  IN  /\ Len(P) = Len(FedToReadout(r))
                      /\ \A j \in 1..Len(P) : IsNaN(P[j]) <=> IsNaN(FedToReadout(r)[j])
                      /\ m[r] = IF G = {} THEN Num(0)
                                ELSE [num |-> SumOver(G, P), den |-> Cardinality(G)]
            /\ ~IsNaN(y)
            /\ y.num * (m[0].den * m[1].den * m[2].den) =
               y.den * ( m[0].num * m[1].den * m[2].den
                       + m[1].num * m[0].den * m[2].den
                       + m[2].num * m[0].den * m[1].den )

C6_Witness ==
    /\ fw.pc = "called" /\ fw.cls = "CAN" /\ fw.f = "nan"
    /\ fw.x[0].rows = <<NaN, Num(1)>>
    /\ Len(fw.x[1].rows) = 2
    /\ fw.x[2].rows = <<>>
    /\ fw.res.out.means[1] = Num(0)
    /\ fw.res.out.means[2] = Num(0)

(***************************************************************************)
(* Claims about the SCoNe data preparation (SpecData).                     *)
(***************************************************************************)
Range(q) == {q[j] : j \in 1..Len(q)}

(* C8: train_indices and test_indices have no index in common and no index *)
(* twice, together they are the edge indices 0..n-1; y_train[k] is the     *)
(* label of edge train_indices[k], y_test[k] that of edge test_indices[k]; *)
(* and every comparison of the loss and of the accuracies pairs row i of   *)
(* the prediction with the label of edge i.                                *)
C8_SplitKeepsPairs ==
    sc.pc \in {"split", "compared"} =>
        /\ Range(sc.train_indices) \cap Range(sc.test_indices) = {}
        /\ Range(sc.train_indices) \cup Range(sc.test_indices) = 0..(NumEdges - 1)
        /\ Cardinality(Range(sc.train_indices)) = Len(sc.train_indices)
        /\ Cardinality(Range(sc.test_indices)) = Len(sc.test_indices)
        /\ Len(sc.y_train) = Len(sc.train_indices)
        /\ Len(sc.y_test) = Len(sc.test_indices)
        /\ \A j \in 1..Len(sc.train_indices) : sc.y_train[j] = sc.y[sc.train_indices[j] + 1]
        /\ \A j \in 1..Len(sc.test_indices) : sc.y_test[j] = sc.y[sc.test_indices[j] + 1]
        /\ sc.pc = "compared" =>
              /\ Len(sc.cmp_train) = Len(sc.train_indices)
              /\ Len(sc.cmp_test) = Len(sc.test_indices)
              /\ \A j \in 1..Len(sc.cmp_train) :
                    sc.cmp_train[j].label = sc.y[sc.cmp_train[j].row + 1]
              /\ \A j \in 1..Len(sc.cmp_test) :
                    sc.cmp_test[j].label = sc.y[sc.cmp_test[j].row + 1]

C8_Witness ==
    /\ sc.pc = "compared"
    /\ sc.train_indices = <<3, 0, 2>>
    /\ sc.test_indices = <<1>>
    /\ sc.y = << <<1, 0>>, <<0, 1>>, <<0, 1>>, <<1, 0>> >>

(* C9: x_1 and y have one row per edge, in the order of the edges; row j of *)
(* x_1 is the first feature of edge j; row j of y is [1, 0] when the second *)
(* feature of edge j is > 0 and [0, 1] when it is 0 or negative.            *)
C9_LabelsFromSecondFeature ==
    sc.pc # "loaded" =>
        /\ Len(sc.x_1) = NumEdges
        /\ Len(sc.y) = NumEdges
        /\ \A j \in 1..NumEdges :
              /\ sc.x_1[j] = <<sc.edge_feat[j][1]>>
              /\ sc.edge_feat[j][2] > 0  => sc.y[j] = <<1, 0>>
              /\ sc.edge_feat[j][2] = 0  => sc.y[j] = <<0, 1>>
              /\ sc.edge_feat[j][2] < 0  => sc.y[j] = <<0, 1>>

C9_Witness ==
    /\ sc.pc = "labelled"
    /\ sc.edge_feat[1] = <<-1, 0>> /\ sc.y[1] = <<0, 1>>
    /\ sc.edge_feat[2] = <<-2, 1>> /\ sc.y[2] = <<1, 0>>
    /\ sc.edge_feat[3] = <<2, -1>> /\ sc.y[3] = <<0, 1>>

(***************************************************************************)
(* Claims about incidence_1 of HMPNN (SpecIncidence).                      *)
(***************************************************************************)
NumColumns(idx) == Len(idx[1])

C13_ComplexLabelShape ==
    (fw.pc = "called" /\ fw.cls \in {"CAN", "AMPSSCA"}) =>
        /\ fw.res.out.shape = <<OutCols(fw.cls)>>
        /\ fw.res.out.shape = <<1>>
        /\ Len(fw.res.out.rows) = 1

C13_Witness ==
    /\ fw.pc = "called" /\ fw.cls = "AMPSSCA"
    /\ fw.cells[0] = 2 /\ fw.cells[1] = 0 /\ fw.cells[2] = 1
    /\ fw.res.out.shape = <<1>>

(***************************************************************************)
(* Claims about the printed training losses (SpecLoss).                    *)
(***************************************************************************)
(* Epochs whose printed training loss is not lower than the one before. *)
RisesAt == {e \in 2..Len(rec.losses) : rec.losses[e] >= rec.losses[e - 1]}

RunComplete == Len(rec.losses) = Len(RecordedLoss(rec.run))

C15_ForwardIsStateless ==
    fw.pc # "built" =>
        /\ fw.caller = Len(fw.before)
        /\ \A id \in 1..fw.caller : fw.heap[id] = fw.before[id]
        /\ fw.pc = "returned" =>
              /\ fw.out > fw.caller
              /\ fw.cls \in Pooled =>
                    \A r \in ReadoutRanks(fw.cls) :
                       /\ fw.means[r] > fw.caller
                       /\ \A i \in 1..Len(fw.heap[fw.means[r]].rows) :
                             ~IsNaN(fw.heap[fw.means[r]].rows[i])

C15_Witness ==
    /\ fw.pc = "returned" /\ fw.cls = "SCN2" /\ fw.f = "keep"
    /\ fw.heap[ArgId("SCN2", 2)].rows = <<NaN, NaN>>
    /\ fw.heap[fw.means[2]].rows = <<Num(0)>>

====
